---------------------------- MODULE Spec2Model ----------------------------
(***************************************************************************)
(* Model of medrxiv_langchain/loader.py: QueryBuilder and BioRxivLoader.   *)
(*                                                                         *)
(* Three specifications share the variables below:                         *)
(*   Spec        BioRxivLoader.load over a fixed simulated API             *)
(*   SpecFetch   one BioRxivLoader._fetch_data call, attempt by attempt    *)
(*   SpecBuilder a QueryBuilder driven by arbitrary calls                  *)
(*                                                                         *)
(* Dates are ISO strings "YYYY-MM-DD" in the program and are compared as   *)
(* strings; the model writes them as naturals in the same order, 0 being   *)
(* the empty string that _process_item fills in for a record without date. *)
(***************************************************************************)
EXTENDS Integers, Sequences, FiniteSets, TLC

VARIABLES
    api,          \* the simulated endpoint: [server -> [cursor text -> response]]
    servers,      \* self.servers
    max_results,  \* self.max_results, 0 standing for None
    max_workers,  \* self.max_workers
    task,         \* one _load_from_server call per entry of servers
    pc,           \* position of load()
    collected,    \* number of futures whose result load() has taken
    result,       \* what load() returned
    error,        \* what load() raised
    http,         \* one _fetch_data call in progress (SpecFetch)
    qb            \* a QueryBuilder and the last build() outcome (SpecBuilder)

vars == <<api, servers, max_results, max_workers, task, pc, collected, result, error, http, qb>>

loadVars == <<api, servers, max_results, max_workers, task, pc, collected, result, error>>

-----------------------------------------------------------------------------
(* Bounds of the model *)

MaxDate == 2
MaxPageLen == 2
MaxCap == 2
MaxServers == 2
MaxWorkers == 2
MaxFetches == 3
MaxCalls == 3

-----------------------------------------------------------------------------
(* Values *)

NoValue == "<None>"

Servers == {"biorxiv", "medrxiv"}

RECURSIVE Take(_, _)
Take(s, n) == IF n <= 0 \/ s = <<>> THEN <<>> ELSE <<Head(s)>> \o Take(Tail(s), n - 1)

\* dict.get(key, default) on a mapping modelled as a function
Get(d, key, default) == IF key \in DOMAIN d THEN d[key] ELSE default

-----------------------------------------------------------------------------
(* The retrying session: Retry(total=3, status_forcelist=[500,502,503,504], *)
(* allowed_methods=["GET"]) mounted on https://                             *)

RetryTotal == 3

StatusForcelist == {500, 502, 503, 504}

\* urllib3's Retry keeps respect_retry_after_header=True unless told
\* otherwise: a response of one of these statuses carrying a Retry-After
\* header is retried too while retries remain.
RetryAfterStatusCodes == {413, 429, 503}

\* Retry.is_retry for a GET, with `total` retries left
is_retry(resp, total) ==
    \/ resp.status \in StatusForcelist
    \/ total # 0 /\ resp.retry_after /\ resp.status \in RetryAfterStatusCodes

\* Exceptions of _fetch_data, by type and leading message text
ConnectionError == [type |-> "ConnectionError", msg |-> "Failed to fetch data from API"]
ParseError == [type |-> "ValueError", msg |-> "Failed to parse API response as JSON"]
NotDictError == [type |-> "ValueError", msg |-> "Invalid API response format"]
MissingCollectionError == [type |-> "ValueError", msg |-> "API response missing 'collection' field"]
ApiError(text) == [type |-> "ValueError", msg |-> "API error: " \o text]
NoError == [type |-> "none", msg |-> ""]

Raised(e) == [kind |-> "raise", err |-> e]
Returned(d) == [kind |-> "return", data |-> d]

\* The branch of _fetch_data for a mapping without `collection`
missing_collection_empty_page(data) ==
    IF "messages" \in DOMAIN data /\ data["messages"] # <<>>
    THEN IF "error" \in DOMAIN data["messages"][1]
         THEN Raised(ApiError(data["messages"][1]["error"]))
         ELSE Returned([collection |-> <<>>])
    ELSE Raised(MissingCollectionError)

missing_collection(data) ==
    IF "messages" \in DOMAIN data /\ data["messages"] # <<>>
    THEN Raised(ApiError(Get(data["messages"][1], "error", "Unknown error")))
    ELSE Raised(MissingCollectionError)

validate_response_no_status_check(resp) ==
    IF resp.body.kind = "text" THEN Raised(ParseError)
    ELSE IF resp.body.kind # "dict" THEN Raised(NotDictError)
    ELSE IF "collection" \notin DOMAIN resp.body.data THEN missing_collection(resp.body.data)
    ELSE Returned(resp.body.data)

\* _fetch_data from response.raise_for_status() on, for the response the
\* session hands back
validate_response(resp) ==
    IF resp.status >= 400 THEN Raised(ConnectionError)
    ELSE IF resp.body.kind = "text" THEN Raised(ParseError)
    ELSE IF resp.body.kind # "dict" THEN Raised(NotDictError)
    ELSE IF "collection" \notin DOMAIN resp.body.data THEN missing_collection(resp.body.data)
    ELSE Returned(resp.body.data)

\* Retry.is_exhausted after an increment: the retry budget went below zero
is_exhausted_early(total) == total <= 0

is_exhausted(total) == total < 0

\* One attempt of session.get inside _fetch_data: h is the call so far, resp
\* the endpoint's answer to this attempt.
fetch_attempt(h, resp) ==
    LET seen == Append(h.history, resp) IN
    IF is_retry(resp, h.total)
    THEN IF is_exhausted(h.total - 1)
         THEN [history |-> seen, total |-> h.total - 1, out |-> Raised(ConnectionError)]
         ELSE [history |-> seen, total |-> h.total - 1, out |-> [kind |-> "pending"]]
    ELSE [history |-> seen, total |-> h.total, out |-> validate_response(resp)]

NewFetch == [history |-> <<>>, total |-> RetryTotal, out |-> [kind |-> "pending"]]

\* _fetch_data against an endpoint that answers every attempt with resp
RECURSIVE fetch_run(_, _)
fetch_run(h, resp) ==
    IF h.out.kind # "pending" THEN h ELSE fetch_run(fetch_attempt(h, resp), resp)

fetch_data(resp) == fetch_run(NewFetch, resp).out

-----------------------------------------------------------------------------
(* _process_item, _build_api_url and the loop of _load_from_server *)

\* The metadata of the Document that claims read: server, doi and date
process_item_default_server(item, server) ==
    [server |-> "biorxiv", doi |-> Get(item, "doi", 0), date |-> Get(item, "date", 0)]

process_item(item, server) ==
    [server |-> server, doi |-> Get(item, "doi", 0), date |-> Get(item, "date", 0)]

\* str(cursor) as the f-string of _build_api_url writes it
Str(cursor) == IF cursor = NoValue THEN "None" ELSE cursor

\* The interval segment is the same for every request of one load and is
\* left out of the URL.
build_api_url(server, cursor) == [server |-> server, cursor |-> Str(cursor)]

NotFound == [status |-> 404, retry_after |-> FALSE, body |-> [kind |-> "text", data |-> <<>>]]

\* The simulated endpoint a: what it answers to a URL
Endpoint(a, url) ==
    IF url.cursor \in DOMAIN a[url.server] THEN a[url.server][url.cursor] ELSE NotFound

NewTask(st) ==
    [st |-> st, cursor |-> "0", documents |-> <<>>, total_fetched |-> 0,
     requests |-> <<>>, err |-> NoError]

\* The `for item` loop over a page of n items: how many are appended, and
\* whether `total_fetched >= self.max_results` returned from inside it
items_appended_page_boundary(n, cap, total_fetched) ==
    [count |-> n, returned |-> cap # 0 /\ n > 0 /\ total_fetched + n >= cap]

items_appended(n, cap, total_fetched) ==
    LET hit == {i \in 1..n : cap # 0 /\ total_fetched + i >= cap}
    IN  IF hit = {} THEN [count |-> n, returned |-> FALSE]
        ELSE [count |-> CHOOSE i \in hit : \A j \in hit : i <= j, returned |-> TRUE]

\* `not messages or messages[0].get("cursor") == cursor`
stop_fetching_no_repeat_check(messages, cursor) == messages = <<>>

stop_fetching(messages, cursor) ==
    messages = <<>> \/ Get(messages[1], "cursor", NoValue) = cursor

\* One pass of the `while True` loop of _load_from_server(server) with
\* self.max_results = cap, from the locals held in t
load_iteration(a, server, cap, t) ==
    LET url == build_api_url(server, t.cursor)
        out == fetch_data(Endpoint(a, url))
        asked == Append(t.requests, t.cursor)
    IN  IF out.kind = "raise"
        THEN [t EXCEPT !.st = "failed", !.err = out.err, !.documents = <<>>,
                       !.requests = asked]
        ELSE
          LET data == out.data
              items == Get(data, "collection", <<>>)
              docs == [i \in 1..Len(items) |-> process_item(items[i], server)]
              messages == Get(data, "messages", <<>>)
              loop == items_appended(Len(items), cap, t.total_fetched)
              grown == [t EXCEPT !.documents = @ \o Take(docs, loop.count),
                                 !.total_fetched = @ + loop.count,
                                 !.requests = asked]
          IN  IF loop.returned \/ stop_fetching(messages, t.cursor)
              THEN [grown EXCEPT !.st = "done"]
              ELSE [grown EXCEPT !.cursor = Get(messages[1], "cursor", NoValue)]

\* _load_from_server run to its end, or to MaxFetches page fetches
RECURSIVE load_run(_, _, _, _)
load_run(a, server, cap, t) ==
    IF t.st # "running" \/ Len(t.requests) >= MaxFetches THEN t
    ELSE load_run(a, server, cap, load_iteration(a, server, cap, t))

load_from_server(a, server, cap) == load_run(a, server, cap, NewTask("running"))

-----------------------------------------------------------------------------
(* The merge of load() *)

\* list.sort(key=date, reverse=True): stable, most recent first
RECURSIVE Insert_ascending(_, _)
Insert_ascending(sorted, d) ==
    IF sorted = <<>> THEN <<d>>
    ELSE IF Head(sorted).date <= d.date
    THEN <<Head(sorted)>> \o Insert_ascending(Tail(sorted), d)
    ELSE <<d>> \o sorted

RECURSIVE Insert(_, _)
Insert(sorted, d) ==
    IF sorted = <<>> THEN <<d>>
    ELSE IF Head(sorted).date >= d.date THEN <<Head(sorted)>> \o Insert(Tail(sorted), d)
    ELSE <<d>> \o sorted

RECURSIVE sort_by_date_ties_reversed(_)
sort_by_date_ties_reversed(docs) ==
    IF docs = <<>> THEN <<>>
    ELSE Insert(sort_by_date_ties_reversed(Tail(docs)), Head(docs))

RECURSIVE sort_by_date(_)
sort_by_date(docs) ==
    IF docs = <<>> THEN <<>>
    ELSE Insert(sort_by_date(SubSeq(docs, 1, Len(docs) - 1)), docs[Len(docs)])

\* itertools.chain.from_iterable over the per-server results, in listed order
RECURSIVE chain(_)
chain(lists) == IF lists = <<>> THEN <<>> ELSE Head(lists) \o chain(Tail(lists))

combine_always_slice(results, cap) == Take(sort_by_date(chain(results)), cap)

combine_no_cap(results, cap) == sort_by_date(chain(results))

combine(results, cap) ==
    LET combined_docs == sort_by_date(chain(results))
    IN  IF cap # 0 THEN Take(combined_docs, cap) ELSE combined_docs

-----------------------------------------------------------------------------
(* The simulated API *)

Tok(n) == ToString(n)

Status(code) == [status |-> code, retry_after |-> FALSE, body |-> [kind |-> "text", data |-> <<>>]]
Ok(data) == [status |-> 200, retry_after |-> FALSE, body |-> [kind |-> "dict", data |-> data]]
NotJson == [status |-> 200, retry_after |-> FALSE, body |-> [kind |-> "text", data |-> <<>>]]
JsonList == [status |-> 200, retry_after |-> FALSE, body |-> [kind |-> "list", data |-> <<>>]]

\* Bodies without `collection`
EmptyDict == Ok(<<>>)
ErrorMessage == Ok([messages |-> <<[status |-> "error", error |-> "server busy"]>>])
NoResults == Ok([messages |-> <<[status |-> "no posts found"]>>])

\* The records of the page at URL number u with the given dates, each with
\* its own doi
Items(u, dates) ==
    [i \in 1..Len(dates) |-> [doi |-> u * (MaxPageLen + 1) + i, date |-> dates[i]]]

Page(u, dates) == Ok([collection |-> Items(u, dates)])
PageWith(u, dates, messages) == Ok([collection |-> Items(u, dates), messages |-> messages])

\* Single-source loads: every page shape at the cursors "0" .. MaxCap-1 and
\* at the cursor text "None"; any other URL answers 404.
FreeCursors == {Tok(n) : n \in 0..(MaxCap - 1)} \cup {"None"}
ReturnedTokens == {Tok(n) : n \in 0..MaxCap}
UrlNumber(c) == IF c = "None" THEN MaxCap ELSE CHOOSE n \in 0..MaxCap : Tok(n) = c
CycleDates(n) == [i \in 1..n |-> ((i - 1) % MaxDate) + 1]

MessagesChoices ==
    {<<>>, <<[status |-> "ok"]>>} \cup {<<[status |-> "ok", cursor |-> c]>> : c \in ReturnedTokens}

FailingResponses == {Status(503), NotJson, JsonList, EmptyDict, ErrorMessage, NoResults}

RichPages(c) ==
    {Page(UrlNumber(c), CycleDates(n)) : n \in 0..MaxPageLen}
    \cup {PageWith(UrlNumber(c), CycleDates(n), m) : n \in 0..MaxPageLen, m \in MessagesChoices}
    \cup FailingResponses

Unreachable == [c \in FreeCursors |-> NotFound]

\* The cursors an uncapped drain asks for when the server answers as f
Visited(f) == LET t == load_from_server([s \in Servers |-> f], "biorxiv", 0)
              IN  {Str(t.requests[i]) : i \in 1..Len(t.requests)}

\* One server's answers; the URLs no drain reaches are left at 404
RichApis ==
    {f \in [FreeCursors -> UNION {RichPages(c) : c \in FreeCursors} \cup {NotFound}] :
        \A c \in FreeCursors :
            /\ f[c] \in RichPages(c) \cup {NotFound}
            /\ c \notin Visited(f) <=> f[c] = NotFound}

\* Multi-source loads: a first page of up to MaxPageLen dated records that
\* either ends the source or names cursor "1", whose page holds one record
\* and repeats its own cursor; either page may fail instead.
DateSeqs == UNION {[1..n -> 1..MaxDate] : n \in 0..MaxPageLen}

ChainApis ==
    {[c \in {"0", "1"} |-> IF c = "0" THEN p ELSE NotFound] :
        p \in {Page(0, ds) : ds \in DateSeqs} \cup {Status(503)}}
    \cup
    {[c \in {"0", "1"} |-> IF c = "0" THEN PageWith(0, ds, <<[status |-> "ok", cursor |-> "1"]>>)
                                       ELSE q] :
        ds \in DateSeqs,
        q \in {PageWith(1, <<d>>, <<[status |-> "ok", cursor |-> "1"]>>) : d \in 1..MaxDate}
              \cup {ErrorMessage}}

ServerLists == UNION {[1..n -> Servers] : n \in 1..MaxServers}

Listed(srv) == {srv[i] : i \in 1..Len(srv)}

-----------------------------------------------------------------------------
(* BioRxivLoader.load *)

Idle == [history |-> <<>>, total |-> 0, out |-> [kind |-> "idle"]]
NoBuilder == [calls |-> <<>>]

InitSingle ==
    /\ \E s \in Servers, f \in RichApis :
          /\ servers = <<s>>
          /\ api = [x \in Servers |-> IF x = s THEN f ELSE Unreachable]
    /\ max_results \in 0..MaxCap
    /\ max_workers = MaxWorkers

InitMulti ==
    /\ servers \in {srv \in ServerLists : Len(srv) > 1}
    /\ api \in [Servers -> ChainApis \cup {[c \in {"0", "1"} |-> NotFound]}]
    /\ \A s \in Servers : s \in Listed(servers) <=> api[s] \in ChainApis
    /\ max_results \in 0..MaxCap
    /\ max_workers \in 1..MaxWorkers

Init ==
    /\ InitSingle \/ InitMulti
    /\ task = [i \in 1..Len(servers) |-> NewTask("pending")]
    /\ pc = "start"
    /\ collected = 0
    /\ result = <<>>
    /\ error = NoError
    /\ http = Idle
    /\ qb = NoBuilder

Running == {i \in DOMAIN task : task[i].st = "running"}

\* load() with one server: _load_from_server runs on the caller's thread
StartSingle ==
    /\ pc = "start" /\ Len(servers) = 1
    /\ pc' = "inline"
    /\ task' = [task EXCEPT ![1].st = "running"]
    /\ UNCHANGED <<api, servers, max_results, max_workers, collected, result, error, http, qb>>

ReturnSingle_sorted ==
    /\ pc = "inline" /\ task[1].st = "done"
    /\ pc' = "returned"
    /\ result' = sort_by_date(task[1].documents)
    /\ UNCHANGED <<api, servers, max_results, max_workers, task, collected, error, http, qb>>

ReturnSingle ==
    /\ pc = "inline" /\ task[1].st = "done"
    /\ pc' = "returned"
    /\ result' = task[1].documents
    /\ UNCHANGED <<api, servers, max_results, max_workers, task, collected, error, http, qb>>

RaiseSingle ==
    /\ pc = "inline" /\ task[1].st = "failed"
    /\ pc' = "raised"
    /\ error' = task[1].err
    /\ UNCHANGED <<api, servers, max_results, max_workers, task, collected, result, http, qb>>

\* executor.map submits one future per server, in listed order, before any
\* result is taken
Submit ==
    /\ pc = "start" /\ Len(servers) > 1
    /\ pc' = "collect"
    /\ UNCHANGED <<api, servers, max_results, max_workers, task, collected, result, error, http, qb>>

WorkerStart_unbounded(i) ==
    /\ pc \in {"collect", "shutdown"}
    /\ task[i].st = "pending"
    /\ \A j \in 1..(i - 1) : task[j].st # "pending"
    /\ task' = [task EXCEPT ![i].st = "running"]
    /\ UNCHANGED <<api, servers, max_results, max_workers, pc, collected, result, error, http, qb>>

\* A worker thread takes the next queued future; at most max_workers threads
WorkerStart(i) ==
    /\ pc \in {"collect", "shutdown"}
    /\ task[i].st = "pending"
    /\ \A j \in 1..(i - 1) : task[j].st # "pending"
    /\ Cardinality(Running) < max_workers
    /\ task' = [task EXCEPT ![i].st = "running"]
    /\ UNCHANGED <<api, servers, max_results, max_workers, pc, collected, result, error, http, qb>>

\* One page of the drain of servers[i]
FetchPage(i) ==
    /\ task[i].st = "running"
    /\ Len(task[i].requests) < MaxFetches
    /\ task' = [task EXCEPT ![i] = load_iteration(api, servers[i], max_results, task[i])]
    /\ UNCHANGED <<api, servers, max_results, max_workers, pc, collected, result, error, http, qb>>

\* list(executor.map(...)) takes the results in listed order
CollectResult ==
    /\ pc = "collect" /\ collected < Len(servers)
    /\ task[collected + 1].st = "done"
    /\ collected' = collected + 1
    /\ UNCHANGED <<api, servers, max_results, max_workers, task, pc, result, error, http, qb>>

FailCancel_partial ==
    /\ pc = "collect" /\ collected < Len(servers)
    /\ task[collected + 1].st = "failed"
    /\ collected' = collected + 1
    /\ UNCHANGED <<api, servers, max_results, max_workers, task, pc, result, error, http, qb>>

FailCancel_any_failed ==
    /\ pc = "collect"
    /\ \E i \in DOMAIN task :
          /\ task[i].st = "failed"
          /\ error' = task[i].err
    /\ pc' = "shutdown"
    /\ task' = [i \in DOMAIN task |->
                  IF task[i].st = "pending" THEN [task[i] EXCEPT !.st = "cancelled"]
                  ELSE task[i]]
    /\ UNCHANGED <<api, servers, max_results, max_workers, collected, result, http, qb>>

\* The first listed future that failed re-raises in list(); the generator's
\* `finally` cancels the futures not yet taken (a future already running
\* cannot be cancelled), and the `with` block then waits in shutdown().
FailCancel ==
    /\ pc = "collect" /\ collected < Len(servers)
    /\ task[collected + 1].st = "failed"
    /\ pc' = "shutdown"
    /\ error' = task[collected + 1].err
    /\ task' = [i \in DOMAIN task |->
                  IF task[i].st = "pending" THEN [task[i] EXCEPT !.st = "cancelled"]
                  ELSE task[i]]
    /\ UNCHANGED <<api, servers, max_results, max_workers, collected, result, http, qb>>

ShutdownRaise_no_wait ==
    /\ pc = "shutdown"
    /\ pc' = "raised"
    /\ UNCHANGED <<api, servers, max_results, max_workers, task, collected, result, error, http, qb>>

\* shutdown(wait=True) returns once no worker is running; load() raises
ShutdownRaise ==
    /\ pc = "shutdown"
    /\ Running = {}
    /\ pc' = "raised"
    /\ UNCHANGED <<api, servers, max_results, max_workers, task, collected, result, error, http, qb>>

\* chain, sort by date, cap, return
Combine ==
    /\ pc = "collect" /\ collected = Len(servers)
    /\ pc' = "returned"
    /\ result' = combine([i \in 1..Len(servers) |-> task[i].documents], max_results)
    /\ UNCHANGED <<api, servers, max_results, max_workers, task, collected, error, http, qb>>

Next ==
    \/ StartSingle
    \/ ReturnSingle
    \/ RaiseSingle
    \/ Submit
    \/ \E i \in DOMAIN task : WorkerStart(i)
    \/ \E i \in DOMAIN task : FetchPage(i)
    \/ CollectResult
    \/ FailCancel
    \/ ShutdownRaise
    \/ Combine

Spec == Init /\ [][Next]_vars

-----------------------------------------------------------------------------
(* One _fetch_data call, attempt by attempt *)

RetryAfter(code) == [Status(code) EXCEPT !.retry_after = TRUE]

FetchResponses ==
    {Status(code) : code \in {304, 404, 429, 500, 502, 503, 504}}
    \cup {RetryAfter(429), RetryAfter(404)}
    \cup {NotJson, JsonList, EmptyDict, ErrorMessage, NoResults,
          Page(0, <<1>>), PageWith(0, <<2>>, <<[status |-> "ok", cursor |-> "1"]>>)}

InitFetch ==
    /\ http = NewFetch
    /\ api = [s \in Servers |-> Unreachable]
    /\ servers = <<>>
    /\ max_results = 0
    /\ max_workers = 1
    /\ task = <<>>
    /\ pc = "fetch"
    /\ collected = 0
    /\ result = <<>>
    /\ error = NoError
    /\ qb = NoBuilder

\* The session sends the GET and the endpoint answers resp
Attempt ==
    /\ http.out.kind = "pending"
    /\ \E resp \in FetchResponses : http' = fetch_attempt(http, resp)
    /\ UNCHANGED <<loadVars, qb>>

NextFetch == Attempt

SpecFetch == InitFetch /\ [][NextFetch]_vars

-----------------------------------------------------------------------------
(* QueryBuilder *)

\* Date strings are written <<year, month, day>>; strptime("%Y-%m-%d")
\* accepts the ones that name a day of the calendar.
DaysIn(y, m) ==
    IF m = 2 THEN (IF y % 4 = 0 /\ (y % 100 # 0 \/ y % 400 = 0) THEN 29 ELSE 28)
    ELSE IF m \in {4, 6, 9, 11} THEN 30 ELSE 31

validate_date(date_str) ==
    /\ date_str[2] \in 1..12
    /\ date_str[3] \in 1..DaysIn(date_str[1], date_str[2])

Today == <<2024, 1, 31>>
ThirtyDaysAgo == <<2024, 1, 1>>

DateInputs == {<<2024, 1, 10>>, <<2024, 1, 20>>, <<2024, 2, 30>>}
CountInputs == {0, 1, 7}
NameInputs == {"biorxiv", "medRxiv", "arxiv"}

\* str.lower() on the names above
Lower(name) == IF name = "medRxiv" THEN "medrxiv" ELSE name

NoDate == <<0, 0, 0>>
NoCount == -1
NoQuery == [count |-> NoCount, suffix |-> ""]

\* QueryBuilder.__init__; calls lists the calls made so far, op and outcome
\* describe the last one
NewBuilder ==
    [start_date |-> NoDate, end_date |-> NoDate, recent_papers |-> NoCount,
     recent_days |-> NoCount, servers |-> <<"biorxiv">>,
     calls |-> <<>>, outcome |-> "none", params |-> <<>>]

InitBuilder ==
    /\ qb = NewBuilder
    /\ http = Idle
    /\ api = [s \in Servers |-> Unreachable]
    /\ servers = <<>>
    /\ max_results = 0
    /\ max_workers = 1
    /\ task = <<>>
    /\ pc = "builder"
    /\ collected = 0
    /\ result = <<>>
    /\ error = NoError

CanCall == Len(qb.calls) < MaxCalls

Called(op, ok) == [qb EXCEPT !.calls = Append(@, [op |-> op, ok |-> ok]),
                             !.outcome = IF ok THEN "return" ELSE "raise",
                             !.params = <<>>]

date_range(start_date, end_date) ==
    /\ CanCall
    /\ qb' = IF validate_date(start_date) /\ validate_date(end_date)
             THEN [Called("date_range", TRUE) EXCEPT !.start_date = start_date,
                                                     !.end_date = end_date]
             ELSE Called("date_range", FALSE)
    /\ UNCHANGED <<loadVars, http>>

most_recent(count) ==
    /\ CanCall
    /\ qb' = IF count <= 0 THEN Called("most_recent", FALSE)
             ELSE [Called("most_recent", TRUE) EXCEPT !.recent_papers = count]
    /\ UNCHANGED <<loadVars, http>>

last_days(days) ==
    /\ CanCall
    /\ qb' = IF days <= 0 THEN Called("last_days", FALSE)
             ELSE [Called("last_days", TRUE) EXCEPT !.recent_days = days]
    /\ UNCHANGED <<loadVars, http>>

\* names is the list given, a single string being wrapped into a list
from_servers(names) ==
    /\ CanCall
    /\ qb' = IF \E i \in 1..Len(names) : Lower(names[i]) \notin {"biorxiv", "medrxiv"}
             THEN Called("from_servers", FALSE)
             ELSE [Called("from_servers", TRUE) EXCEPT
                      !.servers = [i \in 1..Len(names) |-> Lower(names[i])]]
    /\ UNCHANGED <<loadVars, http>>

\* sum(x is not None for x in [_recent_papers, _recent_days, _start_date])
selectors_set(b) ==
    Cardinality({x \in {"recent_papers", "recent_days", "start_date"} :
                   IF x = "start_date" THEN b.start_date # NoDate ELSE b[x] # NoCount})

conflict_above_two(b) == selectors_set(b) > 2

conflict(b) == selectors_set(b) > 1

\* The parameters build() returns, or its ValueError
build_params(b) ==
    IF conflict(b)
    THEN [kind |-> "raise"]
    ELSE IF b.recent_papers # NoCount
    THEN [kind |-> "return", query |-> [count |-> b.recent_papers, suffix |-> ""],
          start_date |-> NoDate, end_date |-> NoDate, servers |-> b.servers]
    ELSE IF b.recent_days # NoCount
    THEN [kind |-> "return", query |-> [count |-> b.recent_days, suffix |-> "d"],
          start_date |-> NoDate, end_date |-> NoDate, servers |-> b.servers]
    ELSE [kind |-> "return", query |-> NoQuery,
          start_date |-> IF b.start_date # NoDate THEN b.start_date ELSE ThirtyDaysAgo,
          end_date |-> IF b.end_date # NoDate THEN b.end_date ELSE Today,
          servers |-> b.servers]

\* build() leaves the builder as it is
build ==
    /\ qb.outcome # "built" /\ qb.outcome # "build failed"
    /\ qb' = [qb EXCEPT !.outcome = IF build_params(qb).kind = "raise"
                                    THEN "build failed" ELSE "built",
                        !.params = build_params(qb)]
    /\ UNCHANGED <<loadVars, http>>

\* A query text is str(count) followed by its suffix: str.isdigit() and
\* str.endswith('d') on it
isdigit(query) == query.suffix = "" /\ query.count >= 0
endswith_d(query) == query.suffix = "d"

Default30d == [count |-> 30, suffix |-> "d"]

interval_digits_only(query, start_date, end_date) ==
    IF query # NoQuery /\ isdigit(query) THEN query
    ELSE IF start_date # NoDate /\ end_date # NoDate THEN <<start_date, "/", end_date>>
    ELSE Default30d

\* The interval segment _build_api_url writes for a loader constructed from
\* built parameters: the query text, "{start}/{end}", or "30d"
interval(query, start_date, end_date) ==
    IF query # NoQuery /\ (isdigit(query) \/ endswith_d(query)) THEN query
    ELSE IF start_date # NoDate /\ end_date # NoDate THEN <<start_date, "/", end_date>>
    ELSE Default30d

\* The path of the URL for one page: "{server}/{interval}/{cursor}/json"
api_path(params, server, cursor) ==
    [server |-> server,
     interval |-> interval(params.query, params.start_date, params.end_date),
     cursor |-> Str(cursor)]

NextBuilder ==
    \/ \E s \in DateInputs, e \in DateInputs : date_range(s, e)
    \/ \E n \in CountInputs : most_recent(n)
    \/ \E n \in CountInputs : last_days(n)
    \/ \E names \in UNION {[1..k -> NameInputs] : k \in 0..2} : from_servers(names)
    \/ build

SpecBuilder == InitBuilder /\ [][NextBuilder]_vars

-----------------------------------------------------------------------------
(* Properties of the per-source drain *)

\* What the endpoint answered to the j-th request of drain i, and what
\* _fetch_data made of it
AskedResp(i, j) == Endpoint(api, build_api_url(servers[i], task[i].requests[j]))
AskedOut(i, j) == fetch_data(AskedResp(i, j))
PageItems(i, j) ==
    IF AskedOut(i, j).kind = "return" THEN Get(AskedOut(i, j).data, "collection", <<>>) ELSE <<>>
PageMessages(i, j) ==
    IF AskedOut(i, j).kind = "return" THEN Get(AskedOut(i, j).data, "messages", <<>>) ELSE <<>>
HasCursor(i, j) == PageMessages(i, j) # <<>> /\ "cursor" \in DOMAIN PageMessages(i, j)[1]

\* The records of the first j pages drain i fetched, in API order
RECURSIVE RecordsUpTo(_, _)
RecordsUpTo(i, j) ==
    IF j <= 0 THEN <<>>
    ELSE RecordsUpTo(i, j - 1)
         \o [k \in 1..Len(PageItems(i, j)) |-> process_item(PageItems(i, j)[k], servers[i])]

Capped(docs) == IF max_results = 0 THEN docs ELSE Take(docs, max_results)

\* Every page fetched so far by drain i was non-empty and carried a token
\* that had not been requested before
FreshChain(i) ==
    \A j \in 1..Len(task[i].requests) :
        /\ AskedOut(i, j).kind = "return"
        /\ PageItems(i, j) # <<>>
        /\ HasCursor(i, j)
        /\ \A k \in 1..j : PageMessages(i, j)[1]["cursor"] # task[i].requests[k]

\* C1: with a positive cap K over non-empty pages that always carry a fresh
\* token, a drain never fails, goes on while it holds fewer than K documents,
\* and returns exactly the first K records in API order, having fetched no
\* page after the one on which the count reached K.
C1_ResultCapExact ==
    \A i \in DOMAIN task :
        (max_results > 0 /\ FreshChain(i)) =>
            LET t == task[i]
                n == Len(t.requests)
            IN  /\ t.st # "failed"
                /\ n <= max_results
                /\ t.st = "running" => (n < max_results /\ Len(RecordsUpTo(i, n)) < max_results)
                /\ t.st = "done" =>
                     /\ Len(t.documents) = max_results
                     /\ t.documents = Take(RecordsUpTo(i, n), max_results)
                     /\ Len(RecordsUpTo(i, n - 1)) < max_results

C1_Witness ==
    \E i \in DOMAIN task :
        /\ max_results > 1 /\ FreshChain(i)
        /\ task[i].st = "done" /\ Len(task[i].requests) > 1
        /\ Len(RecordsUpTo(i, Len(task[i].requests))) > max_results

\* Every page fetched so far by drain i repeated the requested cursor
Stalled(i) ==
    /\ task[i].requests # <<>>
    /\ \A j \in 1..Len(task[i].requests) :
          HasCursor(i, j) /\ PageMessages(i, j)[1]["cursor"] = task[i].requests[j]

NoToken(i, j) == AskedOut(i, j).kind = "return" /\ ~HasCursor(i, j)

\* C3: a fetched page without continuation token (messages absent or empty,
\* or a first message without `cursor`) is the last page the drain fetches,
\* and the drain returns what it accumulated.
C3_NoTokenEndsDrain ==
    \A i \in DOMAIN task :
        \A j \in 1..Len(task[i].requests) :
            NoToken(i, j) =>
                /\ j = Len(task[i].requests)
                /\ task[i].st = "done"
                /\ task[i].documents = Capped(RecordsUpTo(i, j))

-----------------------------------------------------------------------------
(* Properties of load() *)

Multi == Len(servers) > 1
Failed == {i \in DOMAIN task : task[i].st = "failed"}
FirstFailed == CHOOSE i \in Failed : \A j \in Failed : i <= j
Drained == [i \in 1..Len(servers) |-> task[i].documents]

\* C4: a multi-source load that succeeds returns its documents by date,
\* most recent first.
C4_MergeSortedByDate ==
    (pc = "returned" /\ Multi) =>
        \A k \in 1..(Len(result) - 1) : result[k].date >= result[k + 1].date

C4_Witness ==
    /\ pc = "returned" /\ Multi
    /\ Len(result) > 1
    /\ result[1].date > result[Len(result)].date
    /\ chain(Drained)[1].date < result[1].date

\* C5: once the drain of any source has failed, load never returns
\* documents; when it ends it has raised the error of the first listed
\* source that failed and returned nothing.
C5_AllOrNothing ==
    /\ Failed # {} => (pc # "returned" /\ result = <<>>)
    /\ pc = "raised" =>
          /\ Failed # {}
          /\ result = <<>>
          /\ error = task[FirstFailed].err
          /\ error.type \in {"ConnectionError", "ValueError"}

C5_Witness ==
    /\ pc = "raised" /\ Multi
    /\ \E i \in DOMAIN task : task[i].st = "done" /\ task[i].documents # <<>>

\* The complete drain of each listed source with no cap
Uncapped == [i \in 1..Len(servers) |-> load_from_server(api, servers[i], 0).documents]

\* C6 as stated: with cap K a multi-source load returns the first K of the
\* date-descending stable sort of the sources' complete, uncapped drains.
C6_CapOnlyAfterMerge ==
    (pc = "returned" /\ Multi /\ max_results > 0) =>
        result = Take(sort_by_date(chain(Uncapped)), max_results)

\* The drain of each listed source cut at the cap
CappedDrain ==
    [i \in 1..Len(servers) |-> load_from_server(api, servers[i], max_results).documents]

\* C6 amended: every source's drain stops at its first K records, and the
\* load returns the first K of the date-descending stable sort of these
\* capped drains.
C6_CapPerSourceThenMerge ==
    (pc = "returned" /\ Multi /\ max_results > 0) =>
        /\ \A i \in DOMAIN task :
              /\ Len(task[i].documents) <= max_results
              /\ task[i].documents = Take(RecordsUpTo(i, Len(task[i].requests)), max_results)
        /\ result = Take(sort_by_date(chain(CappedDrain)), max_results)
        /\ Len(result) <= max_results

C6_Witness ==
    /\ pc = "returned" /\ Multi /\ max_results > 0
    /\ \E i \in DOMAIN task : Len(Uncapped[i]) > Len(task[i].documents)
    /\ result # Take(sort_by_date(chain(Uncapped)), max_results)

\* C8 as stated: a 200 body without `collection` whose messages carry no
\* error is an empty page, and the drain ends with what it accumulated.
EmptySignal(resp) ==
    /\ resp.status = 200 /\ resp.body.kind = "dict"
    /\ "collection" \notin DOMAIN resp.body.data
    /\ "messages" \in DOMAIN resp.body.data
    /\ resp.body.data["messages"] # <<>>
    /\ "error" \notin DOMAIN resp.body.data["messages"][1]

SignalledEmpty(i) ==
    task[i].requests # <<>> /\ EmptySignal(AskedResp(i, Len(task[i].requests)))

C8_EmptySignalEmptyPage ==
    \A i \in DOMAIN task :
        SignalledEmpty(i) =>
            /\ task[i].st = "done"
            /\ task[i].documents = Capped(RecordsUpTo(i, Len(task[i].requests) - 1))

\* C8 amended: such a body makes the page fetch raise the API error
\* "Unknown error"; the drain fails and keeps no document.
C8_EmptySignalRaises ==
    \A i \in DOMAIN task :
        SignalledEmpty(i) =>
            /\ task[i].st = "failed"
            /\ task[i].err = ApiError("Unknown error")
            /\ task[i].documents = <<>>

C8_Witness ==
    \E i \in DOMAIN task :
        SignalledEmpty(i) /\ Len(task[i].requests) > 1 /\ task[i].st = "failed"

\* C10 as stated: load raises only after every requested source's drain
\* has been started and has run to its end.
C10_AllSiblingsComplete ==
    (pc = "raised" /\ Multi) =>
        \A i \in DOMAIN task : task[i].st \in {"done", "failed"}

\* C10 amended: load raises only when no drain is running or queued; the
\* sources listed before the failing one have completed, a drain that was
\* started is never cut short, and a drain still queued when the failure
\* is taken is cancelled without having fetched anything.
C10_StartedSiblingsComplete ==
    /\ (pc = "raised" /\ Multi) =>
          /\ \A i \in DOMAIN task : task[i].st \in {"done", "failed", "cancelled"}
          /\ \A i \in 1..collected : task[i].st = "done"
          /\ task[collected + 1].st = "failed"
    /\ \A i \in DOMAIN task :
          task[i].st = "cancelled" =>
              (task[i].requests = <<>> /\ i > collected + 1 /\ pc \in {"shutdown", "raised"})

C10_Witness ==
    /\ pc = "raised" /\ Multi
    /\ \E i \in DOMAIN task :
          i > collected + 1 /\ task[i].st = "done" /\ Len(task[i].requests) > 1

-----------------------------------------------------------------------------
(* Properties of one page fetch *)

Attempts == Len(http.history)
FetchDone == http.out.kind \in {"return", "raise"}
\* The k-th answer was followed by another attempt, or will be
Retried(k) == k < Attempts \/ (k = Attempts /\ http.out.kind = "pending")

\* What holds of the retry loop whichever statuses are retried
RetryBudget ==
    /\ Attempts <= RetryTotal + 1
    /\ \A k \in 1..Attempts :
          (http.history[k].status \in StatusForcelist /\ ~Retried(k)) =>
              (Attempts = RetryTotal + 1 /\ http.out = Raised(ConnectionError))
    /\ (FetchDone /\ http.history[Attempts].status = 200) =>
          http.out = validate_response(http.history[Attempts])
    /\ (FetchDone /\ http.history[Attempts].status >= 400) =>
          http.out = Raised(ConnectionError)

\* C9 as stated: 500/502/503/504 are retried up to 3 times, the fetch
\* returning the first other answer or failing after exactly 4 attempts, and
\* no other failing status is ever retried.
C9_RetryOnlyServerErrors ==
    /\ RetryBudget
    /\ \A k \in 1..Attempts : Retried(k) => http.history[k].status \in StatusForcelist

\* C9 amended: as stated, except that a 413 or 429 answer carrying a
\* Retry-After header is retried as well while retries remain.
C9_BoundedRetry ==
    /\ RetryBudget
    /\ \A k \in 1..Attempts :
          Retried(k) =>
              \/ http.history[k].status \in StatusForcelist
              \/ /\ http.history[k].retry_after
                 /\ http.history[k].status \in {413, 429}
                 /\ k <= RetryTotal

C9_Witness ==
    /\ Attempts = 3 /\ http.out.kind = "return"
    /\ http.history[1].status = 503 /\ http.history[2].status = 503

-----------------------------------------------------------------------------
(* Properties of QueryBuilder *)

Selectors == {"date_range", "most_recent", "last_days"}
\* The interval-selector calls made with valid arguments
ValidSelectorCalls ==
    {k \in 1..Len(qb.calls) : qb.calls[k].op \in Selectors /\ qb.calls[k].ok}
SelectorsUsed == {qb.calls[k].op : k \in ValidSelectorCalls}
Built == qb.outcome \in {"built", "build failed"}

\* C7 as stated: build() fails exactly when two or more valid
\* interval-selector calls were made, two calls of one selector included.
C7_TwoCallsFail ==
    Built => (qb.outcome = "build failed" <=> Cardinality(ValidSelectorCalls) >= 2)

\* C7 amended: build() fails, producing no parameters, exactly when valid
\* calls of two or more different selectors were made; repeated calls of
\* one selector overwrite each other and build() succeeds.
C7_DistinctSelectorsFail ==
    Built =>
        /\ qb.outcome = "build failed" <=> Cardinality(SelectorsUsed) >= 2
        /\ qb.outcome = "build failed" => qb.params = [kind |-> "raise"]
        /\ qb.outcome = "built" => qb.params.kind = "return"

C7_Witness ==
    /\ qb.outcome = "build failed"
    /\ SelectorsUsed = {"date_range", "last_days"}

-----------------------------------------------------------------------------
(* Properties of the worker pool *)

\* The drains of source s that ran to an end in this load
DrainsOf(s) == {i \in DOMAIN task : servers[i] = s /\ task[i].st \in {"done", "failed"}}
LoadEnded == pc \in {"returned", "raised"}

\* C11 as stated: never more than max_workers drains are active, and when
\* a multi-source load ends every requested source was drained exactly once.
C11_EverySourceDrainedOnce ==
    /\ Cardinality(Running) <= max_workers
    /\ (LoadEnded /\ Multi) => \A s \in Listed(servers) : Cardinality(DrainsOf(s)) = 1

\* C11 amended: never more than max_workers drains are active; every entry
\* of the server list is drained at most once, a source listed twice once
\* per listing; a load that returns has drained every entry, a load that
\* raises has left undrained exactly the entries it cancelled.
C11_WorkerBound ==
    /\ Cardinality(Running) <= max_workers
    /\ \A i \in DOMAIN task :
          /\ task[i].st \in {"pending", "cancelled"} <=> task[i].requests = <<>> /\ task[i].st # "running"
          /\ task[i].requests # <<>> => task[i].requests[1] = "0"
    /\ (pc = "returned" /\ Multi) =>
          \A s \in Listed(servers) :
              Cardinality(DrainsOf(s)) = Cardinality({i \in DOMAIN task : servers[i] = s})
    /\ (pc = "raised" /\ Multi) =>
          \A i \in DOMAIN task : i \notin DrainsOf(servers[i]) <=> task[i].st = "cancelled"

C11_Witness ==
    /\ Multi /\ max_workers = 1
    /\ Cardinality(Running) = 1
    /\ \E i \in DOMAIN task : task[i].st = "pending"

-----------------------------------------------------------------------------
(* Properties of the source list *)

Distinct(seq) == \A i, j \in 1..Len(seq) : seq[i] = seq[j] => i = j

\* C12: the servers that build() returns are non-empty, free of duplicates
\* and each one of the lowercase names 'biorxiv' and 'medrxiv'.
C12_SourcesNonEmptyDistinct ==
    qb.outcome = "built" =>
        /\ qb.params.servers # <<>>
        /\ Distinct(qb.params.servers)
        /\ \A i \in 1..Len(qb.params.servers) : qb.params.servers[i] \in Servers

-----------------------------------------------------------------------------
(* Properties of the outcome of one page fetch *)

LastResponse == http.history[Attempts]
HasCollection(resp) == resp.body.kind = "dict" /\ "collection" \in DOMAIN resp.body.data
HasMessage(resp) ==
    /\ resp.body.kind = "dict"
    /\ "messages" \in DOMAIN resp.body.data
    /\ resp.body.data["messages"] # <<>>
HasErrorMessage(resp) == HasMessage(resp) /\ "error" \in DOMAIN resp.body.data["messages"][1]
FormatErrors == {ParseError, NotDictError, MissingCollectionError}
IsApiError(e) == \E text \in {"server busy", "Unknown error"} : e = ApiError(text)
Fails == http.out.kind = "raise"

-----------------------------------------------------------------------------
(* Properties of the order of the documents returned *)

\* The documents of docs dated d, in the order they have in docs
WithDate(docs, d) == LET dated(x) == x.date = d IN SelectSeq(docs, dated)

\* C14: in the output of a multi-source load, documents of equal date keep
\* the order in which the drains were chained: listed order of the sources,
\* and page order within a source.
C14_StableTies ==
    (pc = "returned" /\ Multi) =>
        \A d \in 0..MaxDate :
            WithDate(result, d) =
                Take(WithDate(chain(Drained), d), Len(WithDate(result, d)))

C14_Witness ==
    /\ pc = "returned" /\ Multi
    /\ result # chain(Drained)
    /\ \E k \in 1..(Len(result) - 1) :
          /\ result[k].date = result[k + 1].date
          /\ result[k].server # result[k + 1].server

\* C15: a single-source load returns the records of the pages it fetched, in
\* the order the pages were fetched and the order each page lists them, cut
\* to the cap when the cap was reached, and not sorted by date.
C15_SingleSourceFetchOrder ==
    (pc = "returned" /\ Len(servers) = 1) =>
        result = Capped(RecordsUpTo(1, Len(task[1].requests)))

C15_Witness ==
    /\ pc = "returned" /\ Len(servers) = 1
    /\ Len(task[1].requests) > 1
    /\ \E k \in 1..(Len(result) - 1) : result[k].date < result[k + 1].date

-----------------------------------------------------------------------------
(* Properties of the interval *)

Cursors == {"0", "1", NoValue}

\* The interval the selector recorded in the builder stands for
SelectedInterval ==
    IF qb.recent_papers # NoCount THEN [count |-> qb.recent_papers, suffix |-> ""]
    ELSE IF qb.recent_days # NoCount THEN [count |-> qb.recent_days, suffix |-> "d"]
    ELSE IF qb.start_date # NoDate THEN <<qb.start_date, "/", qb.end_date>>
    ELSE <<ThirtyDaysAgo, "/", Today>>

\* C16: the parameters build() returns hold either a query or both dates,
\* never both and never neither, and every URL built from them, whatever the
\* page, has the interval of the selector: "{start}/{end}" after date_range
\* or no selector, the count after most_recent, "{N}d" after last_days.
C16_OneIntervalMode ==
    qb.outcome = "built" =>
        LET p == qb.params IN
        /\ p.query # NoQuery <=> (p.start_date = NoDate /\ p.end_date = NoDate)
        /\ p.query = NoQuery <=> (p.start_date # NoDate /\ p.end_date # NoDate)
        /\ \A s \in Servers, c \in Cursors :
              api_path(p, s, c).interval = SelectedInterval

C16_Witness ==
    /\ qb.outcome = "built"
    /\ qb.recent_days = 7
    /\ api_path(qb.params, "medrxiv", "1").interval = [count |-> 7, suffix |-> "d"]

-----------------------------------------------------------------------------
(* Properties of the documents' source *)

\* Drain i fetched a record that document doc was made from
FetchedBy(i, doc) ==
    \E j \in 1..Len(task[i].requests) : \E n \in 1..Len(PageItems(i, j)) :
        /\ Get(PageItems(i, j)[n], "doi", 0) = doc.doi
        /\ Get(PageItems(i, j)[n], "date", 0) = doc.date

\* C17: every document a drain holds, and every document load returns,
\* names as its server the source whose drain fetched its record.
C17_SourceProvenance ==
    /\ \A i \in DOMAIN task : \A k \in 1..Len(task[i].documents) :
          /\ task[i].documents[k].server = servers[i]
          /\ FetchedBy(i, task[i].documents[k])
    /\ pc = "returned" =>
          \A k \in 1..Len(result) : \E i \in DOMAIN task :
              /\ result[k].server = servers[i]
              /\ \E n \in 1..Len(task[i].documents) : task[i].documents[n] = result[k]

C17_Witness ==
    /\ pc = "returned" /\ Multi
    /\ Len(result) > 2
    /\ result[1].server = servers[2]
    /\ result[2].server = servers[1]
    /\ servers[1] # servers[2]

-----------------------------------------------------------------------------
(* Properties of the interleaving *)

\* The drain of the i-th listed source run on its own, from start to end
Sequential(i) == load_from_server(api, servers[i], max_results)
SequentialFailed == {i \in 1..Len(servers) : Sequential(i).st = "failed"}

\* Draining the sources one after another in listed order, then merging
SequentialOutcome ==
    IF SequentialFailed = {}
    THEN Returned(combine([i \in 1..Len(servers) |-> Sequential(i).documents], max_results))
    ELSE Raised(Sequential(CHOOSE i \in SequentialFailed :
                              \A j \in SequentialFailed : i <= j).err)

\* C18: whatever the interleaving of the workers and the worker limit, a
\* multi-source load ends as draining the sources one after another in
\* listed order and merging would: with the same documents in the same
\* order, or with the same error.
C18_InterleavingIndependence ==
    Multi =>
        /\ pc = "returned" => SequentialOutcome = Returned(result)
        /\ pc \in {"shutdown", "raised"} => SequentialOutcome = Raised(error)
        /\ \A i \in DOMAIN task :
              task[i].st \in {"done", "failed"} =>
                  /\ task[i].documents = Sequential(i).documents
                  /\ task[i].err = Sequential(i).err

C18_Witness ==
    /\ pc = "raised" /\ Multi
    /\ max_workers > 1
    /\ Cardinality(Failed) > 1
    /\ task[1].err # task[2].err
    /\ Len(task[1].requests) > Len(task[2].requests)

-----------------------------------------------------------------------------
(* Properties of the merge *)

Count(doc, docs) == Cardinality({k \in 1..Len(docs) : docs[k] = doc})
Range(docs) == {docs[k] : k \in 1..Len(docs)}

RECURSIVE TotalDrained(_)
TotalDrained(n) == IF n = 0 THEN 0 ELSE TotalDrained(n - 1) + Len(task[n].documents)

\* How many times the drains hold doc
CountDrained(doc) ==
    Cardinality({p \in (DOMAIN task) \X (1..(MaxFetches * MaxPageLen)) :
                    p[2] <= Len(task[p[1]].documents) /\ task[p[1]].documents[p[2]] = doc})

\* C19: a multi-source load without cap that succeeds returns the documents
\* of its drains and no others, each as many times as the drains hold it: as
\* many documents as the drains returned together.
C19_MergeConservation ==
    (pc = "returned" /\ Multi /\ max_results = 0) =>
        /\ Len(result) = TotalDrained(Len(servers))
        /\ \A doc \in Range(result) \cup UNION {Range(task[i].documents) : i \in DOMAIN task} :
              Count(doc, result) = CountDrained(doc)

C19_Witness ==
    /\ pc = "returned" /\ Multi /\ max_results = 0
    /\ Len(task[1].documents) > 1
    /\ Len(task[2].documents) > 1
    /\ result # chain(Drained)

-----------------------------------------------------------------------------
(* Properties of the cursor chain *)

AllFetched(i) == \A j \in 1..Len(task[i].requests) : AskedOut(i, j).kind = "return"

\* The j-th page drain i fetched ends the chain: it has no messages, or its
\* token is the cursor that was requested
ChainEnds(i, j) ==
    \/ PageMessages(i, j) = <<>>
    \/ HasCursor(i, j) /\ PageMessages(i, j)[1]["cursor"] = task[i].requests[j]

\* C20: without cap and while every fetch succeeds, a drain requests "0"
\* first and after each page exactly the token that page returned, never the
\* same cursor twice in a row, and it ends right after the first page that
\* has no messages or repeats the requested cursor.
C20_TokenChain ==
    \A i \in DOMAIN task :
        (max_results = 0 /\ AllFetched(i)) =>
            LET n == Len(task[i].requests) IN
            /\ n > 0 => task[i].requests[1] = "0"
            /\ \A j \in 1..(n - 1) :
                  /\ HasCursor(i, j)
                  /\ task[i].requests[j + 1] = PageMessages(i, j)[1]["cursor"]
                  /\ task[i].requests[j + 1] # task[i].requests[j]
            /\ \A j \in 1..n : ChainEnds(i, j) => (j = n /\ task[i].st = "done")
            /\ (task[i].st = "running" /\ n > 0) => ~ChainEnds(i, n)

=============================================================================
